---- MODULE Spec2Model ----
(***************************************************************************)
(* Model of ingestion/NWS_station_finding/extract_state_coordinates.py:    *)
(* the region index built from the counties gazetteer and an optional CSV. *)
(*                                                                         *)
(* Representation.                                                         *)
(*  - A column name is a sequence of chunks; the chunk " " is a whitespace *)
(*    character, any other chunk is a run of non-blank characters.         *)
(*  - A file is [cols |-> <<name, ...>>, rows |-> <<row, ...>>], a row a   *)
(*    tuple of field texts, "" being an empty field.                       *)
(*  - A DataFrame cell is [t |-> type, s |-> text]: t = "str" holds the    *)
(*    text s, t = "int" / "float" hold a number whose Python str() is s,   *)
(*    t = "nan" is pandas' missing value.                                  *)
(*  - A float produced by pd.to_numeric is [t |-> "float", n |-> tenths]   *)
(*    or FNaN; a coordinate is the pair <<lon, lat>> of tenths.            *)
(*  - An index (dict state -> list of coordinates) is a function from      *)
(*    strings to sequences of coordinates.                                 *)
(***************************************************************************)
EXTENDS Integers, Sequences, FiniteSets, TLC

\* ---------------------------------------------------------------- bounds
MaxGazRows == 2
MaxCsvRows == 2
MaxRows == 3
MaxCols == 4
MaxIdxLen == 2

\* ------------------------------------------------------- generic helpers
ToSet(seq) == {seq[i] : i \in 1..Len(seq)}

NoDuplicates(seq) == \A i, j \in 1..Len(seq) : i # j => seq[i] # seq[j]

IsPrefix(p, seq) == Len(p) <= Len(seq) /\ SubSeq(seq, 1, Len(p)) = p

\* Tuples of length 0..n over the set S
SeqUpTo(S, n) == UNION {[1..k -> S] : k \in 0..n}

\* The ascending sequence of the indices i >= from at which mask[i] is TRUE
RECURSIVE IndicesFrom(_, _)
IndicesFrom(from, mask) ==
    IF from > Len(mask) THEN <<>>
    ELSE IF mask[from] THEN <<from>> \o IndicesFrom(from + 1, mask)
    ELSE IndicesFrom(from + 1, mask)

\* ------------------------------------------------------ text and numbers
\* Decimal literals of the model and the float they parse to, in tenths.
NumericTexts == {"-93.5", "-93.50", "-94.0", "42.0", "41.5", "01", "1", "1.0"}

ParseFloat(text) ==
    CASE text \in {"-93.5", "-93.50"} -> -935
      [] text = "-94.0" -> -940
      [] text = "42.0" -> 420
      [] text = "41.5" -> 415
      [] text \in {"01", "1", "1.0"} -> 10

FNaN == [t |-> "nan", n |-> 0]

NaN == [t |-> "nan", s |-> "nan"]

\* Variant: text that is not a number becomes 0.0 instead of NaN
ToNumericCell_ZeroFill(c) ==
    IF c.t = "nan" THEN FNaN
    ELSE IF c.s \in NumericTexts THEN [t |-> "float", n |-> ParseFloat(c.s)]
    ELSE [t |-> "float", n |-> 0]

\* pd.to_numeric(series, errors="coerce"), cell by cell
ToNumericCell(c) ==
    IF c.t = "nan" THEN FNaN
    ELSE IF c.s \in NumericTexts THEN [t |-> "float", n |-> ParseFloat(c.s)]
    ELSE FNaN

_safe_to_float(series) == [i \in 1..Len(series) |-> ToNumericCell(series[i])]

\* str(state) of a cell value
PyStr(c) == c.s

\* ------------------------------------------------------------ DataFrames
Column(df, col) ==
    LET ci == CHOOSE i \in 1..Len(df.columns) : df.columns[i] = col
    IN  [r \in 1..Len(df.rows) |-> df.rows[r][ci]]

\* series.isin(allowed_set): the set holds str objects only
IsIn(c, allowed_set) == c.t = "str" /\ c.s \in allowed_set

\* df[df[col].isin(allowed_set)]
FilterIsIn(df, col, allowed_set) ==
    LET series == Column(df, col)
        idx == IndicesFrom(1, [i \in 1..Len(series) |-> IsIn(series[i], allowed_set)])
    IN  [columns |-> df.columns,
         rows |-> [k \in 1..Len(idx) |-> df.rows[idx[k]]]]

\* ---------------------------------------------------------- Index Builder
\* Variant: only a repeat of the coordinate appended last is skipped
RECURSIVE DedupLoop_Adjacent(_, _, _)
DedupLoop_Adjacent(pairs, seen, coords) ==
    IF pairs = <<>> THEN coords
    ELSE LET key == Head(pairs)
         IN  IF key \in seen
             THEN DedupLoop_Adjacent(Tail(pairs), seen, coords)
             ELSE DedupLoop_Adjacent(Tail(pairs), {key}, Append(coords, key))

\* Variant: a new coordinate is put in front of the list
RECURSIVE DedupLoop_Prepend(_, _, _)
DedupLoop_Prepend(pairs, seen, coords) ==
    IF pairs = <<>> THEN coords
    ELSE LET key == Head(pairs)
         IN  IF key \in seen
             THEN DedupLoop_Prepend(Tail(pairs), seen, coords)
             ELSE DedupLoop_Prepend(Tail(pairs), seen \cup {key}, <<key>> \o coords)

\* The loop of lines 37-46 over the coordinates of one group
RECURSIVE DedupLoop(_, _, _)
DedupLoop(pairs, seen, coords) ==
    IF pairs = <<>> THEN coords
    ELSE LET key == Head(pairs)
         IN  IF key \in seen
             THEN DedupLoop(Tail(pairs), seen, coords)
             ELSE DedupLoop(Tail(pairs), seen \cup {key}, Append(coords, key))

\* df.dropna(subset=[lon_col, lat_col, state_col]): surviving row numbers
DropNa(states, lon, lat) ==
    IndicesFrom(1, [i \in 1..Len(states) |->
        lon[i].t # "nan" /\ lat[i].t # "nan" /\ states[i].t # "nan"])

_build_state_to_coords_from_df(df, state_col, lon_col, lat_col) ==
    LET lon == _safe_to_float(Column(df, lon_col))
        lat == _safe_to_float(Column(df, lat_col))
        states == Column(df, state_col)
        kept == DropNa(states, lon, lat)
        keys == {states[kept[k]] : k \in 1..Len(kept)}
        \* rows of one group, in row order
        group(st) ==
            LET g == IndicesFrom(1, [k \in 1..Len(kept) |-> states[kept[k]] = st])
            IN  [k \in 1..Len(g) |-> <<lon[kept[g[k]]].n, lat[kept[g[k]]].n>>]
    IN  [name \in {PyStr(st) : st \in keys} |->
            DedupLoop(group(CHOOSE st \in keys : PyStr(st) = name), {}, <<>>)]

\* ----------------------------------------------------------- Index Merger
\* Variant: every coordinate of the additional list is appended
RECURSIVE MergeLoop_AppendAll(_, _, _)
MergeLoop_AppendAll(coords, seen, merged) ==
    IF coords = <<>> THEN merged
    ELSE MergeLoop_AppendAll(Tail(coords), seen, Append(merged, Head(coords)))

\* Variant: the loop stops after the first coordinate it appends
RECURSIVE MergeLoop_FirstOnly(_, _, _)
MergeLoop_FirstOnly(coords, seen, merged) ==
    IF coords = <<>> THEN merged
    ELSE LET coord == Head(coords)
         IN  IF coord \notin seen
             THEN Append(merged, coord)
             ELSE MergeLoop_FirstOnly(Tail(coords), seen, merged)

\* The loop of lines 65-69: append the coordinates not seen so far
RECURSIVE MergeLoop(_, _, _)
MergeLoop(coords, seen, merged) ==
    IF coords = <<>> THEN merged
    ELSE LET coord == Head(coords)
         IN  IF coord \notin seen
             THEN MergeLoop(Tail(coords), seen \cup {coord}, Append(merged, coord))
             ELSE MergeLoop(Tail(coords), seen, merged)

\* Variant: a state that the base lacks is left out
_merge_state_coord_dicts_BaseKeys(base, additional) ==
    [state \in DOMAIN base |->
        IF state \notin DOMAIN additional THEN base[state]
        ELSE MergeLoop(additional[state], ToSet(base[state]), base[state])]

\* Variant: for a shared state the additional coordinates come first
_merge_state_coord_dicts_AdditionalFirst(base, additional) ==
    [state \in DOMAIN base \cup DOMAIN additional |->
        IF state \notin DOMAIN additional THEN base[state]
        ELSE IF state \notin DOMAIN base THEN additional[state]
        ELSE MergeLoop(base[state], ToSet(additional[state]), additional[state])]

_merge_state_coord_dicts(base, additional) ==
    [state \in DOMAIN base \cup DOMAIN additional |->
        IF state \notin DOMAIN additional THEN base[state]
        ELSE IF state \notin DOMAIN base THEN additional[state]
        ELSE MergeLoop(additional[state], ToSet(base[state]), base[state])]

\* --------------------------------------------------------- column names
RECURSIVE LStrip(_)
LStrip(name) ==
    IF name # <<>> /\ Head(name) = " " THEN LStrip(Tail(name)) ELSE name

RECURSIVE RStrip(_)
RStrip(name) ==
    IF name # <<>> /\ name[Len(name)] = " "
    THEN RStrip(SubSeq(name, 1, Len(name) - 1))
    ELSE name

\* Variant: only leading whitespace is removed
Strip_LeftOnly(name) == LStrip(name)

\* str.strip() of one column name
Strip(name) == RStrip(LStrip(name))

\* df.columns = df.columns.str.strip()
StripColumns(df) ==
    [columns |-> [i \in 1..Len(df.columns) |-> Strip(df.columns[i])],
     rows |-> df.rows]

LowerChunk(c) ==
    CASE c \in {"State", "STATE", "state"} -> "state"
      [] c \in {"USPS", "usps"} -> "usps"
      [] c \in {"Longitude", "LONGITUDE", "longitude"} -> "longitude"
      [] c \in {"Latitude", "LATITUDE", "latitude"} -> "latitude"
      [] c \in {"Lon", "LON", "lon"} -> "lon"
      [] c \in {"Lat", "LAT", "lat"} -> "lat"
      [] c \in {"Long", "LONG", "long"} -> "long"
      [] c \in {"INTPTLONG", "intptlong"} -> "intptlong"
      [] c \in {"INTPTLAT", "intptlat"} -> "intptlat"
      [] c \in {"Region", "region"} -> "region"
      [] c = "X" -> "x"
      [] c = "Y" -> "y"
      [] OTHER -> c

\* c.lower()
Lower(name) == [i \in 1..Len(name) |-> LowerChunk(name[i])]

\* None, where the code returns or holds no column name
None == <<>>

\* ------------------------------------------------------- Schema Detector
\* Variant: the gazetteer's names are tried first
candidates_IntptFirst ==
    << << <<"intptlong">>, <<"intptlat">> >>,
       << <<"longitude">>, <<"latitude">> >>,
       << <<"lon">>, <<"lat">> >>,
       << <<"long">>, <<"lat">> >> >>

candidates ==
    << << <<"longitude">>, <<"latitude">> >>,
       << <<"lon">>, <<"lat">> >>,
       << <<"long">>, <<"lat">> >>,
       << <<"intptlong">>, <<"intptlat">> >> >>

\* {c.lower(): c for c in df.columns}: a later column replaces an earlier
\* one that has the same lower-case name
lower_cols(columns) ==
    [k \in {Lower(columns[i]) : i \in 1..Len(columns)} |->
        columns[CHOOSE i \in 1..Len(columns) :
            /\ Lower(columns[i]) = k
            /\ \A j \in 1..Len(columns) : Lower(columns[j]) = k => j <= i]]

_detect_lat_lon_columns(df) ==
    LET lc == lower_cols(df.columns)
        hits == {p \in 1..Len(candidates) :
                    candidates[p][1] \in DOMAIN lc /\ candidates[p][2] \in DOMAIN lc}
    IN  IF hits = {} THEN None
        ELSE LET p == CHOOSE q \in hits : \A o \in hits : q <= o
             IN  <<lc[candidates[p][1]], lc[candidates[p][2]]>>

\* ------------------------------------------------------- reading a file
\* pd.read_csv(path, sep="\t", dtype=str): every field is text, an empty
\* field is NaN
ReadStrCell(text) == IF text = "" THEN NaN ELSE [t |-> "str", s |-> text]

read_csv_str(file) ==
    [columns |-> file.cols,
     rows |-> [r \in 1..Len(file.rows) |->
                 [c \in 1..Len(file.rows[r]) |-> ReadStrCell(file.rows[r][c])]]]

\* pd.read_csv(path): the type of each column is inferred from its fields
IntTexts == {"01", "1"}

IntStr(text) == CASE text \in {"01", "1"} -> "1"

FloatStr(text) ==
    CASE text \in {"-93.5", "-93.50"} -> "-93.5"
      [] text = "-94.0" -> "-94.0"
      [] text = "42.0" -> "42.0"
      [] text = "41.5" -> "41.5"
      [] text \in {"01", "1", "1.0"} -> "1.0"

ColumnType(texts) ==
    IF texts # {} /\ texts \subseteq IntTexts THEN "int"
    ELSE IF texts \ {""} \subseteq NumericTexts /\ texts # {} THEN "float"
    ELSE "object"

ReadInferredCell(type, text) ==
    IF text = "" THEN NaN
    ELSE IF type = "int" THEN [t |-> "int", s |-> IntStr(text)]
    ELSE IF type = "float" THEN [t |-> "float", s |-> FloatStr(text)]
    ELSE [t |-> "str", s |-> text]

read_csv(file) ==
    LET type(c) == ColumnType({file.rows[r][c] : r \in 1..Len(file.rows)})
    IN  [columns |-> file.cols,
         rows |-> [r \in 1..Len(file.rows) |->
                     [c \in 1..Len(file.rows[r]) |->
                         ReadInferredCell(type(c), file.rows[r][c])]]]

\* ----------------------------------------------------------- Orchestrator
required_cols == {<<"USPS">>, <<"INTPTLONG">>, <<"INTPTLAT">>}

state_candidates == << <<"State">>, <<"USPS">>, <<"state">>, <<"usps">> >>

\* Variant: the candidates are compared without regard to case
StateColumn_IgnoreCase(columns) ==
    LET hits == {i \in 1..Len(columns) :
                    Lower(columns[i]) \in {<<"state">>, <<"usps">>}}
    IN  IF hits = {} THEN None
        ELSE columns[CHOOSE q \in hits : \A o \in hits : q <= o]

\* lines 136-140: the first candidate that is a column, else None
StateColumn(columns) ==
    LET hits == {p \in 1..Len(state_candidates) : state_candidates[p] \in ToSet(columns)}
    IN  IF hits = {} THEN None
        ELSE state_candidates[CHOOSE q \in hits : \A o \in hits : q <= o]

\* lines 118-121: restrict the gazetteer to the allowed states
FilterGazetteer(df, allowed) ==
    IF allowed.given THEN FilterIsIn(df, <<"USPS">>, allowed.states) ELSE df

\* Variant: the CSV is not filtered
FilterCsv_Unfiltered(df, state_col, allowed) == df

\* lines 146-148: restrict the CSV to the allowed states
FilterCsv(df, state_col, allowed) ==
    IF allowed.given THEN FilterIsIn(df, state_col, allowed.states) ELSE df

\* ------------------------------------------------------------------ state
VARIABLES
    pc,               \* position in extract_state_coordinates
    allowed_states,   \* the argument: [given, states]
    gaz,              \* the file at gazetteer_path
    df_gaz,           \* the gazetteer frame (filtered at line 121)
    state_to_coords,  \* the index built from the gazetteer (line 123)
    csv,              \* the file at csv_path, if any
    df_csv,           \* the CSV frame (filtered at line 148)
    additional,       \* the index built from the CSV (line 153)
    csv_use,          \* the branch lines 128-161 took
    outcome,          \* "running", "returned" or the exception raised
    returned,         \* the value returned: [has, index]
    detected,         \* what _detect_lat_lon_columns returned (line 150)
    merge_in,         \* three indexes <<A, B, C>> handed to the Index Merger
    merge_out         \* their merges: [left, right], each [has, index]

vars == <<pc, allowed_states, gaz, df_gaz, state_to_coords, csv, df_csv,
          additional, csv_use, outcome, returned, detected, merge_in, merge_out>>

\* ----------------------------------------------------------------- inputs
NotGiven == [given |-> FALSE, exists |-> FALSE, cols |-> <<>>, rows |-> <<>>]

Missing == [given |-> TRUE, exists |-> FALSE, cols |-> <<>>, rows |-> <<>>]

File(cols, rows) == [given |-> TRUE, exists |-> TRUE, cols |-> cols, rows |-> rows]

EmptyDf == [columns |-> <<>>, rows |-> <<>>]

EmptyIndex == [k \in {} |-> <<>>]

NoReturn == [has |-> FALSE, index |-> EmptyIndex]

NoIndexes == <<EmptyIndex, EmptyIndex, EmptyIndex>>

NoMerges == [left |-> NoReturn, right |-> NoReturn]

AllowLists ==
    {[given |-> FALSE, states |-> {}],
     [given |-> TRUE, states |-> {}],
     [given |-> TRUE, states |-> {"IA", "MN"}]}

GoodGazHeaders ==
    { << <<"USPS">>, <<"INTPTLONG">>, <<"INTPTLAT">> >>,
      << <<" ", "USPS">>, <<"INTPTLONG">>, <<"INTPTLAT", " ", " ">> >> }

BadGazHeaders ==
    { << <<"usps">>, <<"INTPTLONG">>, <<"INTPTLAT">> >>,
      << <<"USPS">>, <<"INTPT", " ", "LONG">>, <<"INTPTLAT">> >>,
      << <<"USPS">>, <<"INTPTLONG">>, <<"LAT">> >> }

GazHeaders == GoodGazHeaders \cup BadGazHeaders

\* rows are <<state, longitude, latitude>> fields
GazRowPool ==
    {<<st, "-93.5", "42.0">> : st \in {"IA", "OH"}}
    \cup {<<st, "-94.0", "41.5">> : st \in {"IA", "OH"}}

GazFiles ==
    {Missing} \cup {File(h, rows) : h \in GazHeaders,
                                    rows \in SeqUpTo(GazRowPool, MaxGazRows)}

CsvHeaders ==
    { << <<"State">>, <<"Lon">>, <<"Lat">> >>,
      << <<" ", "usps">>, <<"LONGITUDE">>, <<"latitude", " ">> >>,
      << <<"Region">>, <<"lon">>, <<"lat">> >>,
      << <<"STATE">>, <<"Lon">>, <<"Lat">> >>,
      << <<"State">>, <<"X">>, <<"Y">> >> }

\* one coordinate the gazetteer has too, spelled differently, and a new one
CsvRowPool ==
    {<<st, "-93.50", "42.0">> : st \in {"IA", "OH"}}
    \cup {<<st, "-93.5", "41.5">> : st \in {"IA", "OH"}}

CsvFiles ==
    {NotGiven, Missing}
    \cup {File(h, rows) : h \in CsvHeaders,
                          rows \in SeqUpTo(CsvRowPool, MaxCsvRows)}

\* inputs of the Index Builder on its own
BuildCoordTexts ==
    {<<"-93.5", "42.0">>, <<"-93.50", "42.0">>, <<"-94.0", "41.5">>,
     <<"-93.5", "41.5">>, <<"not-a-number", "42.0">>, <<"-94.0", "abc">>,
     <<"", "42.0">>, <<"-93.5", "">>}

BuildRowPool ==
    {<<st, ll[1], ll[2]>> : st \in {"IA", "MN", ""}, ll \in BuildCoordTexts}

BuildFiles ==
    {File(<< <<"USPS">>, <<"INTPTLONG">>, <<"INTPTLAT">> >>, rows) :
        rows \in SeqUpTo(BuildRowPool, MaxRows)}

\* ---------------------------------------------------------------- actions
Init ==
    /\ pc = "start"
    /\ allowed_states \in AllowLists
    /\ gaz = NotGiven
    /\ df_gaz = EmptyDf
    /\ state_to_coords = EmptyIndex
    /\ csv = NotGiven
    /\ df_csv = EmptyDf
    /\ additional = EmptyIndex
    /\ csv_use = "pending"
    /\ outcome = "running"
    /\ returned = NoReturn
    /\ detected = None
    /\ merge_in = NoIndexes
    /\ merge_out = NoMerges

\* lines 105-115: read the gazetteer, strip its header, check the columns
LoadGazetteer ==
    /\ pc = "start"
    /\ \E file \in GazFiles :
        /\ gaz' = file
        /\ IF ~file.exists
           THEN /\ outcome' = "FileNotFoundError"
                /\ pc' = "done"
                /\ df_gaz' = df_gaz
           ELSE LET df == StripColumns(read_csv_str(file))
                    missing == required_cols \ ToSet(df.columns)
                IN  /\ df_gaz' = df
                    /\ IF missing # {}
                       THEN outcome' = "ValueError" /\ pc' = "done"
                       ELSE outcome' = outcome /\ pc' = "gaz_loaded"
    /\ UNCHANGED <<allowed_states, state_to_coords, csv, df_csv, additional,
                   csv_use, returned, detected, merge_in, merge_out>>

\* lines 118-125: filter by the allowed states, build the index
BuildPrimary ==
    /\ pc = "gaz_loaded"
    /\ df_gaz' = FilterGazetteer(df_gaz, allowed_states)
    /\ state_to_coords' = _build_state_to_coords_from_df(
            df_gaz', <<"USPS">>, <<"INTPTLONG">>, <<"INTPTLAT">>)
    /\ pc' = "built"
    /\ UNCHANGED <<allowed_states, gaz, csv, df_csv, additional, csv_use,
                   outcome, returned, detected, merge_in, merge_out>>

\* Variant: a CSV path that does not exist is ignored
LoadCsv_IgnoreMissing ==
    /\ pc = "built"
    /\ \E file \in CsvFiles :
        /\ csv' = file
        /\ IF ~file.given \/ ~file.exists
           THEN /\ csv_use' = (IF file.given THEN "missing" ELSE "not_given")
                /\ outcome' = "returned"
                /\ returned' = [has |-> TRUE, index |-> state_to_coords]
                /\ pc' = "done"
                /\ df_csv' = df_csv
           ELSE /\ csv_use' = csv_use
                /\ outcome' = outcome
                /\ returned' = returned
                /\ pc' = "csv_loaded"
                /\ df_csv' = StripColumns(read_csv(file))
    /\ UNCHANGED <<allowed_states, gaz, df_gaz, state_to_coords, additional,
                   detected, merge_in, merge_out>>

\* lines 128-133 (and 163 when csv_path is None): read the CSV, one of files
LoadCsvFrom(files) ==
    /\ pc = "built"
    /\ \E file \in files :
        /\ csv' = file
        /\ IF ~file.given
           THEN /\ csv_use' = "not_given"
                /\ outcome' = "returned"
                /\ returned' = [has |-> TRUE, index |-> state_to_coords]
                /\ pc' = "done"
                /\ df_csv' = df_csv
           ELSE IF ~file.exists
           THEN /\ csv_use' = "missing"
                /\ outcome' = "FileNotFoundError"
                /\ returned' = returned
                /\ pc' = "done"
                /\ df_csv' = df_csv
           ELSE /\ csv_use' = csv_use
                /\ outcome' = outcome
                /\ returned' = returned
                /\ pc' = "csv_loaded"
                /\ df_csv' = StripColumns(read_csv(file))
    /\ UNCHANGED <<allowed_states, gaz, df_gaz, state_to_coords, additional,
                   detected, merge_in, merge_out>>

LoadCsv == LoadCsvFrom(CsvFiles)

\* lines 135-163: find the columns, filter, build, merge, return
MergeCsv ==
    /\ pc = "csv_loaded"
    /\ LET state_col == StateColumn(df_csv.columns)
       IN  IF state_col = None
           THEN /\ csv_use' = "no_state_col"
                /\ df_csv' = df_csv
                /\ detected' = detected
                /\ additional' = additional
                /\ returned' = [has |-> TRUE, index |-> state_to_coords]
           ELSE LET filtered == FilterCsv(df_csv, state_col, allowed_states)
                    found == _detect_lat_lon_columns(filtered)
                IN  /\ df_csv' = filtered
                    /\ detected' = found
                    /\ IF found = None
                       THEN /\ csv_use' = "no_lon_lat"
                            /\ additional' = additional
                            /\ returned' = [has |-> TRUE, index |-> state_to_coords]
                       ELSE /\ csv_use' = "merged"
                            /\ additional' = _build_state_to_coords_from_df(
                                    filtered, state_col, found[1], found[2])
                            /\ returned' =
                                [has |-> TRUE,
                                 index |-> _merge_state_coord_dicts(
                                               state_to_coords, additional')]
    /\ outcome' = "returned"
    /\ pc' = "done"
    /\ UNCHANGED <<allowed_states, gaz, df_gaz, state_to_coords, csv,
                   merge_in, merge_out>>

Next == LoadGazetteer \/ BuildPrimary \/ LoadCsv \/ MergeCsv

Spec == Init /\ [][Next]_vars

\* The Index Builder on its own: any frame of text fields, no allow-list
InitBuild ==
    /\ pc = "gaz_loaded"
    /\ allowed_states = [given |-> FALSE, states |-> {}]
    /\ gaz \in BuildFiles
    /\ df_gaz = StripColumns(read_csv_str(gaz))
    /\ state_to_coords = EmptyIndex
    /\ csv = NotGiven
    /\ df_csv = EmptyDf
    /\ additional = EmptyIndex
    /\ csv_use = "pending"
    /\ outcome = "running"
    /\ returned = NoReturn
    /\ detected = None
    /\ merge_in = NoIndexes
    /\ merge_out = NoMerges

NextBuild == BuildPrimary

SpecBuild == InitBuild /\ [][NextBuild]_vars

TypeOK ==
    /\ pc \in {"start", "gaz_loaded", "built", "csv_loaded", "done",
              "detect", "detected", "merge"}
    /\ outcome \in {"running", "returned", "FileNotFoundError", "ValueError"}
    /\ csv_use \in {"pending", "not_given", "missing", "no_state_col",
                    "no_lon_lat", "merged"}
    /\ returned.has = (outcome = "returned")

\* ------------------------------------------------------------ properties
\* What the claims are stated against: the fields of the files as written.
\* In every file of GazFiles, BuildFiles and CsvFiles a row is
\* <<state, longitude, latitude>>.
Usable(row) ==
    row[1] # "" /\ row[2] \in NumericTexts /\ row[3] \in NumericTexts

CoordOf(row) == <<ParseFloat(row[2]), ParseFloat(row[3])>>

\* the elements of seq that no earlier position holds, in order
FirstOccurrences(seq) ==
    LET idx == IndicesFrom(1, [i \in 1..Len(seq) |->
                                 \A j \in 1..(i - 1) : seq[j] # seq[i]])
    IN  [k \in 1..Len(idx) |-> seq[idx[k]]]

\* the coordinates of the usable rows of region r, in row order
RegionCoords(rows, r) ==
    LET idx == IndicesFrom(1, [i \in 1..Len(rows) |->
                                 Usable(rows[i]) /\ rows[i][1] = r])
    IN  [k \in 1..Len(idx) |-> CoordOf(rows[idx[k]])]

UsableRegions(rows) == {rows[i][1] : i \in {j \in 1..Len(rows) : Usable(rows[j])}}

RemoveRow(df, i) ==
    [columns |-> df.columns,
     rows |-> SubSeq(df.rows, 1, i - 1) \o SubSeq(df.rows, i + 1, Len(df.rows))]

\* C1: for a region in both the base and the additional index, the merged
\* sequence is the base's sequence, unchanged, followed by the additional
\* coordinates that the base lacks, in the additional index's order.
C1_MergeBasePriority ==
    csv_use = "merged" =>
        \A r \in DOMAIN state_to_coords \cap DOMAIN additional :
            LET a == state_to_coords[r]
                b == additional[r]
                m == returned.index[r]
                IsNew(c) == c \notin ToSet(a)
            IN  /\ IsPrefix(a, m)
                /\ SubSeq(m, Len(a) + 1, Len(m)) = SelectSeq(b, IsNew)

\* a shared region where one additional coordinate is appended and another
\* one, already in the base, is not
C1_Witness ==
    /\ csv_use = "merged"
    /\ \E r \in DOMAIN state_to_coords \cap DOMAIN additional :
        /\ Len(additional[r]) = 2
        /\ Len(returned.index[r]) = Len(state_to_coords[r]) + 1

\* C2: no region's sequence built by the Index Builder holds the same
\* (longitude, latitude) pair at two positions.
C2_BuilderNoDuplicates ==
    pc = "built" =>
        \A r \in DOMAIN state_to_coords : NoDuplicates(state_to_coords[r])

\* three rows of one region, the first and the third with the same
\* coordinate and another coordinate between them
C2_Witness ==
    /\ pc = "built"
    /\ Len(gaz.rows) = 3
    /\ \A i \in 1..3 : Usable(gaz.rows[i]) /\ gaz.rows[i][1] = gaz.rows[1][1]
    /\ CoordOf(gaz.rows[1]) = CoordOf(gaz.rows[3])
    /\ CoordOf(gaz.rows[1]) # CoordOf(gaz.rows[2])
    /\ Len(state_to_coords[gaz.rows[1][1]]) = 2

\* C4: the Index Builder's sequence for a region is the sequence of first
\* occurrences of the distinct coordinates of the region's surviving rows,
\* in row order, and the regions are those that have a surviving row.
C4_BuilderFirstOccurrences ==
    pc = "built" =>
        /\ DOMAIN state_to_coords = UsableRegions(gaz.rows)
        /\ \A r \in DOMAIN state_to_coords :
            state_to_coords[r] = FirstOccurrences(RegionCoords(gaz.rows, r))

\* the scenario IA(-93.5,42.0), IA(-93.5,42.0), IA(-94.0,41.5)
C4_Witness ==
    /\ pc = "built"
    /\ gaz.rows = << <<"IA", "-93.5", "42.0">>, <<"IA", "-93.5", "42.0">>,
                     <<"IA", "-94.0", "41.5">> >>
    /\ state_to_coords = [r \in {"IA"} |-> << <<-935, 420>>, <<-940, 415>> >>]

\* C5: only a row whose region, longitude and latitude are all present
\* after numeric coercion contributes a coordinate; any other row adds
\* nothing, raises nothing and leaves the other rows' contribution as it is.
C5_BuilderDropsRows ==
    pc = "built" =>
        /\ outcome = "running"
        /\ \A r \in DOMAIN state_to_coords :
            \A c \in ToSet(state_to_coords[r]) :
                \E i \in 1..Len(gaz.rows) :
                    /\ Usable(gaz.rows[i])
                    /\ gaz.rows[i][1] = r
                    /\ CoordOf(gaz.rows[i]) = c
        /\ \A i \in 1..Len(gaz.rows) :
            ~Usable(gaz.rows[i]) =>
                state_to_coords = _build_state_to_coords_from_df(
                    RemoveRow(df_gaz, i), <<"USPS">>, <<"INTPTLONG">>, <<"INTPTLAT">>)

\* a row with longitude "not-a-number" and a valid latitude, between two
\* rows of the same region that do contribute
C5_Witness ==
    /\ pc = "built"
    /\ Len(gaz.rows) = 3
    /\ gaz.rows[2] = <<"IA", "not-a-number", "42.0">>
    /\ Usable(gaz.rows[1]) /\ Usable(gaz.rows[3])
    /\ "IA" \in DOMAIN state_to_coords
    /\ Len(state_to_coords["IA"]) = 2

\* C6: a region of the additional index that the base lacks has the
\* additional index's sequence in the merge, a region of the base alone has
\* the base's sequence, and the merged keys are the union of the two key sets.
C6_MergeNewRegions ==
    csv_use = "merged" =>
        /\ DOMAIN returned.index = DOMAIN state_to_coords \cup DOMAIN additional
        /\ \A r \in DOMAIN additional \ DOMAIN state_to_coords :
            returned.index[r] = additional[r]
        /\ \A r \in DOMAIN state_to_coords \ DOMAIN additional :
            returned.index[r] = state_to_coords[r]

\* one region only in the additional index, with two coordinates, and one
\* region only in the base
C6_Witness ==
    /\ csv_use = "merged"
    /\ \E r \in DOMAIN additional \ DOMAIN state_to_coords :
        Len(returned.index[r]) = 2
    /\ \E r \in DOMAIN state_to_coords \ DOMAIN additional :
        Len(returned.index[r]) >= 1

\* name is core with whitespace before and after it only
Blanks(n) == [i \in 1..n |-> " "]

Trimmed(name, core) ==
    \E a, b \in 0..Len(name) : name = Blanks(a) \o core \o Blanks(b)

RequiredPresent(file) ==
    \A req \in required_cols : \E i \in 1..Len(file.cols) : Trimmed(file.cols[i], req)

HasRegionColumn(file) ==
    \E i \in 1..Len(file.cols) :
        \E cand \in {<<"State">>, <<"USPS">>, <<"state">>, <<"usps">>} :
            Trimmed(file.cols[i], cand)

HasLonLatPair(file) ==
    \E pair \in {<< <<"longitude">>, <<"latitude">> >>, << <<"lon">>, <<"lat">> >>,
                 << <<"long">>, <<"lat">> >>, << <<"intptlong">>, <<"intptlat">> >>} :
        \E i, j \in 1..Len(file.cols) :
            /\ Trimmed(Lower(file.cols[i]), pair[1])
            /\ Trimmed(Lower(file.cols[j]), pair[2])

Allowed(row) == allowed_states.given => row[1] \in allowed_states.states

\* the rows of a file that pass the allow-list
AllowedRows(rows) ==
    LET idx == IndicesFrom(1, [i \in 1..Len(rows) |-> Allowed(rows[i])])
    IN  [k \in 1..Len(idx) |-> rows[idx[k]]]

\* the rows the returned index was read from: the gazetteer's, then the CSV's
ObservedRows ==
    AllowedRows(gaz.rows)
    \o (IF csv_use = "merged" THEN AllowedRows(csv.rows) ELSE <<>>)

\* C3: with an Allow-List, every key of the returned index is in the list,
\* whatever the two sources hold; with an empty list the index is empty.
C3_AllowListFilters ==
    (outcome = "returned" /\ allowed_states.given) =>
        /\ DOMAIN returned.index \subseteq allowed_states.states
        /\ allowed_states.states = {} => returned.index = EmptyIndex

\* both sources hold a row of a region outside the list, the CSV is merged
\* and the index still holds a region of the list
C3_Witness ==
    /\ outcome = "returned"
    /\ allowed_states.given
    /\ csv_use = "merged"
    /\ \E i \in 1..Len(gaz.rows) : gaz.rows[i][1] = "OH"
    /\ \E i \in 1..Len(csv.rows) : csv.rows[i][1] = "OH"
    /\ \E i \in 1..Len(csv.rows) : csv.rows[i][1] = "IA"
    /\ DOMAIN returned.index = {"IA"}

\* C7: in the returned index no region's sequence holds a coordinate twice,
\* and each sequence is in the order in which the region's distinct
\* coordinates are first met reading the primary rows, then the secondary.
C7_ReturnedOrder ==
    outcome = "returned" =>
        /\ DOMAIN returned.index = UsableRegions(ObservedRows)
        /\ \A r \in DOMAIN returned.index :
            /\ NoDuplicates(returned.index[r])
            /\ returned.index[r] = FirstOccurrences(RegionCoords(ObservedRows, r))

\* a region with a primary coordinate that the secondary source repeats
\* under another spelling, followed by a coordinate only the secondary has
C7_Witness ==
    /\ outcome = "returned"
    /\ csv_use = "merged"
    /\ gaz.rows = << <<"IA", "-93.5", "42.0">> >>
    /\ csv.rows = << <<"IA", "-93.50", "42.0">>, <<"IA", "-93.5", "41.5">> >>
    /\ returned.index = [r \in {"IA"} |-> << <<-935, 420>>, <<-935, 415>> >>]

\* C8: a readable secondary source without a region candidate column, or
\* without a recognized longitude/latitude pair, raises nothing and the
\* returned index is the one built from the primary source.
C8_UnusableSecondary ==
    (pc = "done" /\ csv.given /\ csv.exists
        /\ (~HasRegionColumn(csv) \/ ~HasLonLatPair(csv))) =>
        /\ outcome = "returned"
        /\ returned.index = state_to_coords

\* the scenario with a State column and only X, Y beside it
C8_Witness ==
    /\ pc = "done"
    /\ csv.given /\ csv.exists
    /\ csv.cols = << <<"State">>, <<"X">>, <<"Y">> >>
    /\ Len(csv.rows) = 2
    /\ outcome = "returned"
    /\ state_to_coords # EmptyIndex
    /\ returned.index = state_to_coords

\* C9: with the gazetteer read, the call fails with the schema error exactly
\* when a required column is absent after trimming the header names, and a
\* failed call returns no index.
C9_SchemaError ==
    pc # "start" =>
        /\ (outcome = "ValueError") <=> (gaz.exists /\ ~RequiredPresent(gaz))
        /\ outcome \in {"ValueError", "FileNotFoundError"} => returned = NoReturn

\* a gazetteer with rows and the name INTPT LONG fails; nothing is returned
C9_Witness ==
    /\ outcome = "ValueError"
    /\ gaz.cols[2] = <<"INTPT", " ", "LONG">>
    /\ Len(gaz.rows) = 2
    /\ returned = NoReturn

\* C10 as stated: every deficiency of the secondary source, a missing file
\* included, ends with the primary index returned.
C10_SecondaryNeverFatal ==
    (pc = "done" /\ csv_use # "pending"
        /\ (~csv.given \/ ~csv.exists \/ ~HasRegionColumn(csv) \/ ~HasLonLatPair(csv))) =>
        /\ outcome = "returned"
        /\ returned.index = state_to_coords

\* C10 amended: a secondary source that is not supplied, or is read and has
\* no region column or no coordinate columns, ends with the primary index
\* returned; a supplied path that does not exist ends with
\* FileNotFoundError and no index.
C10_SecondaryDeficiency ==
    (pc = "done" /\ csv_use # "pending") =>
        /\ (~csv.given \/ (csv.exists /\ (~HasRegionColumn(csv) \/ ~HasLonLatPair(csv)))) =>
            (outcome = "returned" /\ returned.index = state_to_coords)
        /\ (csv.given /\ ~csv.exists) =>
            (outcome = "FileNotFoundError" /\ returned = NoReturn)

\* the primary index is built, the CSV path does not exist, the call fails
C10_Witness ==
    /\ pc = "done"
    /\ csv.given /\ ~csv.exists
    /\ state_to_coords # EmptyIndex
    /\ outcome = "FileNotFoundError"
    /\ returned = NoReturn

\* ------------------------------------------ the Schema Detector on its own
\* stripped column names, in the spellings a CSV header may use
DetectNames ==
    {<<"Longitude">>, <<"latitude">>, <<"Lon">>, <<"LON">>, <<"Lat">>,
     <<"long">>, <<"INTPTLONG">>, <<"intptlat">>, <<"State">>, <<"X">>}

\* headers of distinct names (pandas renames an exact repeat)
DetectHeaders ==
    {cols \in SeqUpTo(DetectNames, MaxCols) : NoDuplicates(cols)}

InitDetect ==
    /\ pc = "detect"
    /\ allowed_states = [given |-> FALSE, states |-> {}]
    /\ gaz = NotGiven
    /\ df_gaz = EmptyDf
    /\ state_to_coords = EmptyIndex
    /\ csv = NotGiven
    /\ df_csv \in {[columns |-> cols, rows |-> <<>>] : cols \in DetectHeaders}
    /\ additional = EmptyIndex
    /\ csv_use = "pending"
    /\ outcome = "running"
    /\ returned = NoReturn
    /\ detected = None
    /\ merge_in = NoIndexes
    /\ merge_out = NoMerges

\* line 150: detected = _detect_lat_lon_columns(df_csv)
DetectColumns ==
    /\ pc = "detect"
    /\ detected' = _detect_lat_lon_columns(df_csv)
    /\ pc' = "detected"
    /\ UNCHANGED <<allowed_states, gaz, df_gaz, state_to_coords, csv, df_csv,
                   additional, csv_use, outcome, returned, merge_in, merge_out>>

NextDetect == DetectColumns

SpecDetect == InitDetect /\ [][NextDetect]_vars

\* the recognized pairs in the order of priority the claim gives
PairPriority ==
    << << <<"longitude">>, <<"latitude">> >>, << <<"lon">>, <<"lat">> >>,
       << <<"long">>, <<"lat">> >>, << <<"intptlong">>, <<"intptlat">> >> >>

PresentIgnoringCase(cols, key) == \E i \in 1..Len(cols) : Lower(cols[i]) = key

FullPairs(cols) ==
    {p \in 1..Len(PairPriority) :
        /\ PresentIgnoringCase(cols, PairPriority[p][1])
        /\ PresentIgnoringCase(cols, PairPriority[p][2])}

\* C11: the Schema Detector returns not-found exactly when no pair has both
\* names present ignoring case; otherwise it returns two columns of the
\* header, in their own spelling, that match the first fully present pair
\* in the order (longitude, latitude), (lon, lat), (long, lat),
\* (intptlong, intptlat).
C11_DetectFirstPair ==
    pc = "detected" =>
        LET cols == df_csv.columns
            full == FullPairs(cols)
        IN  /\ (detected = None) <=> (full = {})
            /\ full # {} =>
                \E p \in full :
                    /\ \A q \in full : p <= q
                    /\ detected[1] \in ToSet(cols)
                    /\ detected[2] \in ToSet(cols)
                    /\ Lower(detected[1]) = PairPriority[p][1]
                    /\ Lower(detected[2]) = PairPriority[p][2]

\* the gazetteer's pair and, after it, Lon and Lat: (lon, lat) is returned
C11_Witness ==
    /\ pc = "detected"
    /\ df_csv.columns = << <<"INTPTLONG">>, <<"intptlat">>, <<"Lon">>, <<"Lat">> >>
    /\ detected = << <<"Lon">>, <<"Lat">> >>

\* -------------------------------------------- the Index Merger on its own
\* coordinates as the Index Builder stores them
MergeCoords == {<<-935, 420>>, <<-940, 415>>, <<-935, 415>>}

\* duplicate-free, non-empty lists, as the Index Builder produces them
MergeLists ==
    {l \in SeqUpTo(MergeCoords, MaxIdxLen) : l # <<>> /\ NoDuplicates(l)}

\* the index with the list ia for IA and oh for OH, <<>> for no entry
IndexOf(ia, oh) ==
    [r \in {k \in {"IA"} : ia # <<>>} \cup {k \in {"OH"} : oh # <<>>} |->
        IF r = "IA" THEN ia ELSE oh]

MergeIndexes ==
    {IndexOf(ia, oh) : ia \in MergeLists \cup {<<>>},
                       oh \in {<<>>, << <<-935, 420>> >>}}

InitMerge ==
    /\ pc = "merge"
    /\ allowed_states = [given |-> FALSE, states |-> {}]
    /\ gaz = NotGiven
    /\ df_gaz = EmptyDf
    /\ state_to_coords = EmptyIndex
    /\ csv = NotGiven
    /\ df_csv = EmptyDf
    /\ additional = EmptyIndex
    /\ csv_use = "pending"
    /\ outcome = "running"
    /\ returned = NoReturn
    /\ detected = None
    /\ merge_in \in MergeIndexes \X MergeIndexes \X MergeIndexes
    /\ merge_out = NoMerges

\* merge(merge(A, B), C)
MergeLeftFirst ==
    /\ pc = "merge"
    /\ ~merge_out.left.has
    /\ merge_out' =
        [merge_out EXCEPT !.left =
            [has |-> TRUE,
             index |-> _merge_state_coord_dicts(
                           _merge_state_coord_dicts(merge_in[1], merge_in[2]),
                           merge_in[3])]]
    /\ UNCHANGED <<pc, allowed_states, gaz, df_gaz, state_to_coords, csv, df_csv,
                   additional, csv_use, outcome, returned, detected, merge_in>>

\* merge(A, merge(B, C))
MergeRightFirst ==
    /\ pc = "merge"
    /\ ~merge_out.right.has
    /\ merge_out' =
        [merge_out EXCEPT !.right =
            [has |-> TRUE,
             index |-> _merge_state_coord_dicts(
                           merge_in[1],
                           _merge_state_coord_dicts(merge_in[2], merge_in[3]))]]
    /\ UNCHANGED <<pc, allowed_states, gaz, df_gaz, state_to_coords, csv, df_csv,
                   additional, csv_use, outcome, returned, detected, merge_in>>

NextMerge == MergeLeftFirst \/ MergeRightFirst

SpecMerge == InitMerge /\ [][NextMerge]_vars

\* C12: for duplicate-free indexes A, B, C the two groupings of the merge
\* have the same keys and, for every region, the same set of coordinates.
C12_MergeAssociativeAsSets ==
    (merge_out.left.has /\ merge_out.right.has) =>
        LET l == merge_out.left.index
            r == merge_out.right.index
        IN  /\ DOMAIN l = DOMAIN r
            /\ \A k \in DOMAIN l : ToSet(l[k]) = ToSet(r[k])

\* IA is in all three indexes, with lists that overlap, B and C bring a new
\* coordinate each, and OH is in C alone
C12_Witness ==
    /\ merge_out.left.has /\ merge_out.right.has
    /\ \A i \in 1..3 : "IA" \in DOMAIN merge_in[i]
    /\ Len(merge_in[2]["IA"]) = 2
    /\ Len(merge_in[3]["IA"]) = 2
    /\ ToSet(merge_in[2]["IA"]) \cap ToSet(merge_in[1]["IA"]) # {}
    /\ ToSet(merge_in[3]["IA"]) \cap ToSet(merge_in[2]["IA"]) # {}
    /\ Len(merge_out.left.index["IA"]) = 3
    /\ "OH" \in DOMAIN merge_in[3] \ (DOMAIN merge_in[1] \cup DOMAIN merge_in[2])
    /\ "OH" \in DOMAIN merge_out.right.index

\* the two groupings give the same sequences too
MergeSameOrder ==
    (merge_out.left.has /\ merge_out.right.has) =>
        merge_out.left.index = merge_out.right.index

\* --------------------------------------- region codes that look like numbers
RegionAllowLists ==
    {[given |-> FALSE, states |-> {}],
     [given |-> TRUE, states |-> {"01"}],
     [given |-> TRUE, states |-> {"01", "IA"}]}

RegionGazRowPool == {<<"01", "-93.5", "42.0">>, <<"IA", "-94.0", "41.5">>}

RegionGazFiles ==
    {File(<< <<"USPS">>, <<"INTPTLONG">>, <<"INTPTLAT">> >>, rows) :
        rows \in SeqUpTo(RegionGazRowPool, MaxGazRows)}

RegionCsvRowPool ==
    {<<st, "-93.50", "42.0">> : st \in {"01", "IA", ""}}
    \cup {<<st, "-94.0", "41.5">> : st \in {"01", "IA", ""}}

RegionCsvFiles ==
    {File(<< <<"State">>, <<"Lon">>, <<"Lat">> >>, rows) :
        rows \in SeqUpTo(RegionCsvRowPool, MaxCsvRows)}

\* the gazetteer is read (lines 105-115); the allow-list is an argument
InitRegion ==
    /\ pc = "gaz_loaded"
    /\ allowed_states \in RegionAllowLists
    /\ gaz \in RegionGazFiles
    /\ df_gaz = StripColumns(read_csv_str(gaz))
    /\ state_to_coords = EmptyIndex
    /\ csv = NotGiven
    /\ df_csv = EmptyDf
    /\ additional = EmptyIndex
    /\ csv_use = "pending"
    /\ outcome = "running"
    /\ returned = NoReturn
    /\ detected = None
    /\ merge_in = NoIndexes
    /\ merge_out = NoMerges

LoadCsvRegion == LoadCsvFrom(RegionCsvFiles)

NextRegion == BuildPrimary \/ LoadCsvRegion \/ MergeCsv

SpecRegion == InitRegion /\ [][NextRegion]_vars

\* C13: the keys of the returned index are the region texts of the rows
\* that contribute, as they stand in the primary and in the secondary
\* source, a row being matched against the Allow-List by that same text.
C13_KeysAreSourceText ==
    outcome = "returned" =>
        DOMAIN returned.index = UsableRegions(ObservedRows)

\* the same for the index built from the primary source alone
PrimaryKeysAreSourceText ==
    pc # "gaz_loaded" =>
        DOMAIN state_to_coords = UsableRegions(AllowedRows(gaz.rows))

====
